---- MODULE Spec2Model ----
(***************************************************************************)
(* A model of ss.py, a script that times a CPU-bound and an I/O-bound      *)
(* task run sequentially and on a thread pool, and then lets three threads *)
(* append to one list under a lock.                                        *)
(*                                                                         *)
(* Part 3 of the script (ss.py:77-104), the shared list, is specified by   *)
(* Spec.  Parts 1 and 2 (ss.py:11-71), the timed runs, are specified by    *)
(* SpecPool, and the division of the two times alone by SpecSpeedup.       *)
(***************************************************************************)
EXTENDS Integers, Sequences, FiniteSets, TLC

\* ------------------------------------------------------------------------
\* Parts 1 and 2, constants and state: a task run sequentially and on a
\* ThreadPoolExecutor, each run timed, and the ratio of the two times printed
\* (ss.py:11-71)
\* ------------------------------------------------------------------------

\* cpu_intensive_task is called twice in each run (ss.py:23-24, 31-32).
CpuTasks == 2

\* io_intensive_task is called range(3) times in each run (ss.py:58, 66).
IoTasks == 3

\* ThreadPoolExecutor(max_workers=2) (ss.py:30).
CpuWorkers == 2

\* ThreadPoolExecutor(max_workers=3) (ss.py:65).
IoWorkers == 3

\* The script calls cpu_intensive_task(5000000); the model draws each call's
\* argument from 1..MaxN.
MaxN == 3

\* requests.get(..., timeout=3): the request is given up after 3 seconds.
TimeoutSecs == 3

\* https://httpbin.org/delay/1: the server answers after 1 second.
DelaySecs == 1

\* time.sleep(1) of the except branch.
SleepSecs == 1

\* return 200 of the except branch.
FallbackStatus == 200

\* The status codes a response may carry (the server's 200, or an error of it).
StatusCodes == {200, 503}

\* What requests.get may do: answer after the server's delay, fail at once,
\* or run into its timeout.  dur is the time the call blocks.
Outcomes ==
    {[res |-> "ok", status |-> c, dur |-> DelaySecs] : c \in StatusCodes}
        \cup {[res |-> "ConnectionError", status |-> 0, dur |-> 0],
              [res |-> "Timeout", status |-> 0, dur |-> TimeoutSecs]}

NoOutcome == [res |-> "none", status |-> 0, dur |-> 0]

TaskCount(k) == IF k = "cpu" THEN CpuTasks ELSE IoTasks

MaxWorkers(k) == IF k = "cpu" THEN CpuWorkers ELSE IoWorkers

\* The calls of the task: 1..N are the calls of the sequential run, in order,
\* and N+1..2N the calls the pool makes for the 1st..Nth submitted future.
Invs == 1..(2 * IoTasks)

VARIABLES
    kind,         \* which part of the script runs: "cpu" (part 1) or "io" (part 2)
    args,         \* the argument of the k-th call of a run
    p_pc,         \* where the main thread is in the part
    p_k,          \* the main thread's index: calls made, futures submitted, results taken
    now,          \* the clock time.time() reads
    start,        \* start
    single_time,  \* single_thread_time / single_thread_io_time, -1 before it is set
    multi_time,   \* multi_thread_time / multi_thread_io_time, -1 before it is set
    seq_results,  \* the results of the sequential run (result1, result2 / results)
    results,      \* the results taken from the futures (result1, result2 / results)
    executor,     \* the executor: "none", "open", "shutdown"
    futures,      \* the futures in submission order, each named by its call
    queue,        \* the executor's work queue
    completed,    \* the calls of the pool in the order they completed
    t_pc,         \* per call: "idle", "loop", "get", "sleep", "done", "raised"
    t_n,          \* per call: cpu_intensive_task's n
    t_i,          \* per call: cpu_intensive_task's i
    t_result,     \* per call: cpu_intensive_task's result
    t_out,        \* per call: what requests.get does for it
    t_wait,       \* per call: time left until its blocking call returns
    t_slept,      \* per call: time spent in time.sleep(1)
    t_units,      \* per call: time spent blocked in all
    t_ret,        \* per call: the value returned, -1 before
    sp_out        \* the ratio printed: [raised, value]

poolVars ==
    <<kind, args, p_pc, p_k, now, start, single_time, multi_time, seq_results,
      results, executor, futures, queue, completed, t_pc, t_n, t_i, t_result,
      t_out, t_wait, t_slept, t_units, t_ret, sp_out>>

mainVars ==
    <<p_pc, p_k, start, single_time, multi_time, seq_results, results, executor,
      futures, queue, sp_out>>

taskVars == <<t_pc, t_n, t_i, t_result, t_out, t_wait, t_slept, t_units, t_ret>>

\* ------------------------------------------------------------------------
\* Part 3: worker threads appending to shared_data under lock (ss.py:77-104)
\* ------------------------------------------------------------------------

\* for i in range(3): the number of threads the script creates (ss.py:90).
WorkerCount == 3

\* The number of iterations of worker's loop.  The script runs range(5)
\* (ss.py:79); the model runs the same loop for a smaller count, because the
\* interleavings of 3 x 5 appends are more than an exhaustive search covers.
StepsPerWorker == 2

Workers == 0..(WorkerCount - 1)

VARIABLES
    main_pc,      \* where the main thread is: "start", "join", "len", "print", "end"
    main_i,       \* the main thread's loop index (threads started, joined, items printed)
    threads,      \* the list threads: ids of the Thread objects, in creation order
    w_pc,         \* per worker: "new", "acquire", "append", "release", "sleep", "done"
    w_i,          \* per worker: the loop variable i of worker()
    lock,         \* threading.Lock(): TRUE when locked
    shared_data,  \* the shared list
    reported,     \* what the main thread has read of the list: its length, or -1 before
    printed       \* the items the main thread has printed

logVars == <<main_pc, main_i, threads, w_pc, w_i, lock, shared_data, reported, printed>>

\* An entry that carries the id of thread 0 whichever thread writes it.
EntryOfThreadZero(thread_id, i) ==
    "thread" \o ToString(0) \o "-task" \o ToString(i)

\* An f-string that formats thread_id twice and leaves i out.
EntryWithoutStep(thread_id, i) ==
    "thread" \o ToString(thread_id) \o "-task" \o ToString(thread_id)

\* The f-string of ss.py:81: a prefix, str(thread_id), "-", a second prefix,
\* str(i).  The two prefixes are Chinese words ("thread", "task"); a string of
\* the model holds ASCII only, so they are written in English.
Entry(thread_id, i) == "thread" \o ToString(thread_id) \o "-task" \o ToString(i)

\* A list.append that puts the item at the front of the list.
ListPrepend(list, item) == <<item>> \o list

\* A store that overwrites the last item of the list (list[-1] = item).
ListOverwrite(list, item) ==
    IF list = <<>> THEN <<item>> ELSE [list EXCEPT ![Len(list)] = item]

\* list.append: the item goes to the end of the list.
ListAppend(list, item) == Append(list, item)

\* A lock that never blocks.
LockIgnored(locked) == TRUE

\* Lock.acquire() of "with lock:" blocks while the lock is locked.
CanAcquire(locked) == ~locked

\* An exit of the with block that leaves the lock as it was.
StillLocked(locked) == locked

\* Lock.release() of the with block's __exit__: the lock is unlocked.
Released(locked) == FALSE

\* A loop that runs one iteration short.
LoopNextShort(k) == IF k < StepsPerWorker - 1 THEN "acquire" ELSE "done"

\* for i in range(...): the next value of i is taken, or the loop is over.
LoopNext(k) == IF k < StepsPerWorker THEN "acquire" ELSE "done"

\* A join that returns at once, whether or not the thread has ended.
JoinReturnsAtOnce(t) == TRUE

\* Thread.join() returns once the thread's target has returned.
Joinable(t) == w_pc[t] = "done"

LogInit ==
    /\ main_pc = "start"
    /\ main_i = 0
    /\ threads = <<>>
    /\ w_pc = [w \in Workers |-> "new"]
    /\ w_i = [w \in Workers |-> 0]
    /\ lock = FALSE
    /\ shared_data = <<>>
    /\ reported = -1
    /\ printed = <<>>

\* for i in range(3): t = Thread(...); threads.append(t); t.start()  (ss.py:90-93)
StartThread ==
    /\ main_pc = "start"
    /\ main_i < WorkerCount
    /\ threads' = ListAppend(threads, main_i)
    /\ w_pc' = [w_pc EXCEPT ![main_i] = LoopNext(0)]
    /\ main_i' = IF main_i + 1 < WorkerCount THEN main_i + 1 ELSE 0
    /\ main_pc' = IF main_i + 1 < WorkerCount THEN "start" ELSE "join"
    /\ UNCHANGED <<w_i, lock, shared_data, reported, printed>>
    /\ UNCHANGED poolVars

\* with lock: __enter__ (ss.py:80)
Acquire(w) ==
    /\ w_pc[w] = "acquire"
    /\ CanAcquire(lock)
    /\ lock' = TRUE
    /\ w_pc' = [w_pc EXCEPT ![w] = "append"]
    /\ UNCHANGED <<main_pc, main_i, threads, w_i, shared_data, reported, printed>>
    /\ UNCHANGED poolVars

\* shared_list.append(f"...") (ss.py:81)
AppendEntry(w) ==
    /\ w_pc[w] = "append"
    /\ shared_data' = ListAppend(shared_data, Entry(w, w_i[w]))
    /\ w_pc' = [w_pc EXCEPT ![w] = "release"]
    /\ UNCHANGED <<main_pc, main_i, threads, w_i, lock, reported, printed>>
    /\ UNCHANGED poolVars

\* with lock: __exit__ (ss.py:80-81)
Release(w) ==
    /\ w_pc[w] = "release"
    /\ lock' = Released(lock)
    /\ w_pc' = [w_pc EXCEPT ![w] = "sleep"]
    /\ UNCHANGED <<main_pc, main_i, threads, w_i, shared_data, reported, printed>>
    /\ UNCHANGED poolVars

\* time.sleep(0.1) returns and the loop takes its next i, or ends (ss.py:79, 82)
Sleep(w) ==
    /\ w_pc[w] = "sleep"
    /\ w_i' = [w_i EXCEPT ![w] = w_i[w] + 1]
    /\ w_pc' = [w_pc EXCEPT ![w] = LoopNext(w_i[w] + 1)]
    /\ UNCHANGED <<main_pc, main_i, threads, lock, shared_data, reported, printed>>
    /\ UNCHANGED poolVars

\* for t in threads: t.join() (ss.py:96-97)
Join ==
    /\ main_pc = "join"
    /\ Joinable(threads[main_i + 1])
    /\ main_i' = IF main_i + 1 < Len(threads) THEN main_i + 1 ELSE 0
    /\ main_pc' = IF main_i + 1 < Len(threads) THEN "join" ELSE "len"
    /\ UNCHANGED <<threads, w_pc, w_i, lock, shared_data, reported, printed>>
    /\ UNCHANGED poolVars

\* print(f"... {len(shared_data)} ...") (ss.py:99-102)
ReportLen ==
    /\ main_pc = "len"
    /\ reported' = Len(shared_data)
    /\ main_pc' = IF Len(shared_data) > 0 THEN "print" ELSE "end"
    /\ UNCHANGED <<main_i, threads, w_pc, w_i, lock, shared_data, printed>>
    /\ UNCHANGED poolVars

\* for item in shared_data: print(f"  {item}") (ss.py:103-104)
PrintItem ==
    /\ main_pc = "print"
    /\ printed' = ListAppend(printed, shared_data[main_i + 1])
    /\ main_i' = main_i + 1
    /\ main_pc' = IF main_i + 1 < Len(shared_data) THEN "print" ELSE "end"
    /\ UNCHANGED <<threads, w_pc, w_i, lock, shared_data, reported>>
    /\ UNCHANGED poolVars

WorkerStep(w) == Acquire(w) \/ AppendEntry(w) \/ Release(w) \/ Sleep(w)

LogNext ==
    \/ StartThread
    \/ \E w \in Workers : WorkerStep(w)
    \/ Join
    \/ ReportLen
    \/ PrintItem

\* ------------------------------------------------------------------------
\* Parts 1 and 2: the runs
\* ------------------------------------------------------------------------

N == TaskCount(kind)

\* The call the pool makes for the k-th submitted future.
PoolInv(k) == N + k

PoolInvs == {PoolInv(k) : k \in 1..N}

Running == {c \in PoolInvs : t_pc[c] \in {"loop", "get", "sleep"}}

\* The state of a call whose function body is entered.
FirstPc(k) == IF k = "cpu" THEN "loop" ELSE "get"

\* An except clause that handles a timeout only.
CaughtTimeoutOnly(exc) == exc = "Timeout"

\* except: (ss.py:47) handles every exception.
Caught(exc) == TRUE

\* A blocking call (requests.get, time.sleep) returns when its time is over.
BlockingOver(left) == left = 0

\* A sequential run that takes the arguments from the last to the first.
ArgReversed(k) == args[TaskCount(kind) + 1 - k]

\* The argument of the k-th call of the sequential run (ss.py:23-24, 59).
ArgOf(k) == args[k]

\* A submit that passes the first call's argument every time.
FirstArgOnly(k) == args[1]

\* The argument submitted with the k-th future (ss.py:31-32, 66).
SubmittedArg(k) == args[k]

\* The future whose result is taken j-th, if results were taken as the calls
\* complete.
FutureAsCompleted(j) == IF j <= Len(completed) THEN completed[j] ELSE futures[j]

\* The future whose result is taken j-th: future1, future2 (ss.py:33-34),
\* for future in futures (ss.py:67).
FutureAt(j) == futures[j]

\* A difference taken the wrong way round.
ElapsedSwapped(t1, t0) == t0 - t1

\* time.time() - start (ss.py:25, 35, 60, 68)
Elapsed(t1, t0) == t1 - t0

\* single / multi formatted with :.2f (ss.py:37, 70): the ratio in hundredths,
\* rounded; ZeroDivisionError when the divisor is 0.
Ratio(a, b) ==
    IF b = 0
    THEN [raised |-> TRUE, value |-> 0]
    ELSE [raised |-> FALSE, value |-> (200 * a + b) \div (2 * b)]

\* A script that reads the clock only after the futures are submitted.
NextPcLateStamp(pc) ==
    CASE pc = "seq_time0" -> "seq_call"
      [] pc = "seq_time1" -> "pool_enter"
      [] pc = "pool_enter" -> "submit"
      [] pc = "submit" -> "pool_time0"
      [] pc = "pool_time0" -> "result"
      [] pc = "pool_exit" -> "pool_time1"
      [] pc = "pool_time1" -> "speedup"

\* The order of the main thread's statements in a part (ss.py:22-37, 56-70):
\* the statement that follows the one at pc.
NextPc(pc) ==
    CASE pc = "seq_time0" -> "seq_call"
      [] pc = "seq_time1" -> "pool_time0"
      [] pc = "pool_time0" -> "pool_enter"
      [] pc = "pool_enter" -> "submit"
      [] pc = "submit" -> "result"
      [] pc = "pool_exit" -> "pool_time1"
      [] pc = "pool_time1" -> "speedup"

\* Nothing of a part has run: no call is made, no result is kept.
RunStart(k, a) ==
    /\ kind = k
    /\ args = a
    /\ p_k = 1
    /\ now = 0
    /\ start = 0
    /\ seq_results = <<>>
    /\ results = <<>>
    /\ executor = "none"
    /\ futures = <<>>
    /\ queue = <<>>
    /\ completed = <<>>
    /\ t_pc = [c \in Invs |-> "idle"]
    /\ t_n = [c \in Invs |-> 0]
    /\ t_i = [c \in Invs |-> 0]
    /\ t_result = [c \in Invs |-> 0]
    /\ t_out = [c \in Invs |-> NoOutcome]
    /\ t_wait = [c \in Invs |-> 0]
    /\ t_slept = [c \in Invs |-> 0]
    /\ t_units = [c \in Invs |-> 0]
    /\ t_ret = [c \in Invs |-> -1]
    /\ sp_out = [raised |-> FALSE, value |-> -1]

\* The main thread is at the first statement of the part (ss.py:22, 56).
PoolStart(k, a) ==
    /\ RunStart(k, a)
    /\ p_pc = "seq_time0"
    /\ single_time = -1
    /\ multi_time = -1

\* Part 1 with any arguments of 1..MaxN, or part 2 (whose task takes none).
PoolInit ==
    \/ \E a \in [1..CpuTasks -> 1..MaxN] : PoolStart("cpu", a)
    \/ PoolStart("io", [k \in 1..IoTasks |-> 0])

\* The largest elapsed time the ratio is computed for, when it is taken alone.
MaxElapsed == 9

\* The two elapsed times are measured, each any number of 0..MaxElapsed, and
\* the ratio is about to be printed.
SpeedupInit ==
    \E k \in {"cpu", "io"} :
        /\ RunStart(k, [j \in 1..TaskCount(k) |-> 1])
        /\ p_pc = "speedup"
        /\ single_time \in 0..MaxElapsed
        /\ multi_time \in 0..MaxElapsed

\* The variables of parts 1 and 2 are at rest while part 3 is looked at.
PoolIdle == PoolStart("io", [k \in 1..IoTasks |-> 0])

\* The function body is entered with argument n.
Entered(c, n) ==
    /\ t_pc' = [t_pc EXCEPT ![c] = FirstPc(kind)]
    /\ t_n' = [t_n EXCEPT ![c] = n]
    /\ t_i' = [t_i EXCEPT ![c] = 0]
    /\ t_result' = [t_result EXCEPT ![c] = 0]
    /\ UNCHANGED <<t_out, t_wait, t_slept, t_units, t_ret>>

\* start = time.time() (ss.py:22, 56)
SeqTime0 ==
    /\ p_pc = "seq_time0"
    /\ start' = now
    /\ seq_results' = <<>>
    /\ p_pc' = NextPc("seq_time0")
    /\ UNCHANGED <<p_k, single_time, multi_time, results, executor, futures, queue, sp_out>>
    /\ UNCHANGED <<kind, args, now, completed, taskVars>>
    /\ UNCHANGED logVars

\* The main thread calls the task (ss.py:23-24, 59).
SeqCall ==
    /\ p_pc = "seq_call"
    /\ Entered(p_k, ArgOf(p_k))
    /\ p_pc' = "seq_wait"
    /\ UNCHANGED <<p_k, start, single_time, multi_time, seq_results, results, executor,
                   futures, queue, sp_out>>
    /\ UNCHANGED <<kind, args, now, completed>>
    /\ UNCHANGED logVars

\* The call returns and its result is kept (ss.py:23-24, 59).
SeqReturn ==
    /\ p_pc = "seq_wait"
    /\ t_pc[p_k] = "done"
    /\ seq_results' = ListAppend(seq_results, t_ret[p_k])
    /\ p_k' = IF p_k < N THEN p_k + 1 ELSE 1
    /\ p_pc' = IF p_k < N THEN "seq_call" ELSE "seq_time1"
    /\ UNCHANGED <<start, single_time, multi_time, results, executor, futures, queue, sp_out>>
    /\ UNCHANGED <<kind, args, now, completed, taskVars>>
    /\ UNCHANGED logVars

\* single_thread_time = time.time() - start (ss.py:25, 60)
SeqTime1 ==
    /\ p_pc = "seq_time1"
    /\ single_time' = Elapsed(now, start)
    /\ p_pc' = NextPc("seq_time1")
    /\ UNCHANGED <<p_k, start, multi_time, seq_results, results, executor, futures, queue, sp_out>>
    /\ UNCHANGED <<kind, args, now, completed, taskVars>>
    /\ UNCHANGED logVars

\* start = time.time() (ss.py:29, 64)
PoolTime0 ==
    /\ p_pc = "pool_time0"
    /\ start' = now
    /\ p_pc' = NextPc("pool_time0")
    /\ UNCHANGED <<p_k, single_time, multi_time, seq_results, results, executor, futures,
                   queue, sp_out>>
    /\ UNCHANGED <<kind, args, now, completed, taskVars>>
    /\ UNCHANGED logVars

\* with ThreadPoolExecutor(max_workers=...) as executor: (ss.py:30, 65)
PoolEnter ==
    /\ p_pc = "pool_enter"
    /\ executor' = "open"
    /\ p_pc' = NextPc("pool_enter")
    /\ UNCHANGED <<p_k, start, single_time, multi_time, seq_results, results, futures,
                   queue, sp_out>>
    /\ UNCHANGED <<kind, args, now, completed, taskVars>>
    /\ UNCHANGED logVars

\* executor.submit(task, ...) (ss.py:31-32, 66): the call is queued with its
\* argument, and its future goes to the list of futures.
Submit ==
    /\ p_pc = "submit"
    /\ executor = "open"
    /\ futures' = ListAppend(futures, PoolInv(p_k))
    /\ queue' = ListAppend(queue, PoolInv(p_k))
    /\ t_n' = [t_n EXCEPT ![PoolInv(p_k)] = SubmittedArg(p_k)]
    /\ p_k' = IF p_k < N THEN p_k + 1 ELSE 1
    /\ p_pc' = IF p_k < N THEN "submit" ELSE NextPc("submit")
    /\ UNCHANGED <<start, single_time, multi_time, seq_results, results, executor, sp_out>>
    /\ UNCHANGED <<t_pc, t_i, t_result, t_out, t_wait, t_slept, t_units, t_ret>>
    /\ UNCHANGED <<kind, args, now, completed>>
    /\ UNCHANGED logVars

\* A thread of the pool takes the oldest queued call and enters the task;
\* the pool has at most max_workers threads.
PoolTake ==
    /\ queue # <<>>
    /\ Cardinality(Running) < MaxWorkers(kind)
    /\ Entered(Head(queue), t_n[Head(queue)])
    /\ queue' = Tail(queue)
    /\ UNCHANGED <<p_pc, p_k, start, single_time, multi_time, seq_results, results,
                   executor, futures, sp_out>>
    /\ UNCHANGED <<kind, args, now, completed>>
    /\ UNCHANGED logVars

\* future.result() (ss.py:33-34, 67) waits for the future and gives its value.
GetResult ==
    /\ p_pc = "result"
    /\ t_pc[FutureAt(p_k)] = "done"
    /\ results' = ListAppend(results, t_ret[FutureAt(p_k)])
    /\ p_k' = IF p_k < N THEN p_k + 1 ELSE 1
    /\ p_pc' = IF p_k < N THEN "result" ELSE "pool_exit"
    /\ UNCHANGED <<start, single_time, multi_time, seq_results, executor, futures, queue, sp_out>>
    /\ UNCHANGED <<kind, args, now, completed, taskVars>>
    /\ UNCHANGED logVars

\* The end of the with block: executor.shutdown(wait=True) returns when the
\* pool's threads have ended (ss.py:30-34, 65-67).
PoolExit ==
    /\ p_pc = "pool_exit"
    /\ queue = <<>>
    /\ Running = {}
    /\ executor' = "shutdown"
    /\ p_pc' = NextPc("pool_exit")
    /\ UNCHANGED <<p_k, start, single_time, multi_time, seq_results, results, futures,
                   queue, sp_out>>
    /\ UNCHANGED <<kind, args, now, completed, taskVars>>
    /\ UNCHANGED logVars

\* multi_thread_time = time.time() - start (ss.py:35, 68)
PoolTime1 ==
    /\ p_pc = "pool_time1"
    /\ multi_time' = Elapsed(now, start)
    /\ p_pc' = NextPc("pool_time1")
    /\ UNCHANGED <<p_k, start, single_time, seq_results, results, executor, futures, queue, sp_out>>
    /\ UNCHANGED <<kind, args, now, completed, taskVars>>
    /\ UNCHANGED logVars

\* print(f"... {single_thread_time/multi_thread_time:.2f}x") (ss.py:37, 70):
\* an exception of the division ends the script.
PrintSpeedup ==
    /\ p_pc = "speedup"
    /\ sp_out' = Ratio(single_time, multi_time)
    /\ p_pc' = IF Ratio(single_time, multi_time).raised THEN "crashed" ELSE "end"
    /\ UNCHANGED <<p_k, start, single_time, multi_time, seq_results, results, executor,
                   futures, queue>>
    /\ UNCHANGED <<kind, args, now, completed, taskVars>>
    /\ UNCHANGED logVars

\* The call c has ended: a call of the pool completes its future.
Completed(c) == IF c \in PoolInvs THEN ListAppend(completed, c) ELSE completed

\* A clock for threads that run at the same time: the iterations of the
\* pool's later calls overlap those of its first call and take no time more.
AfterIterationParallel(t, c) ==
    IF c \in PoolInvs /\ c # PoolInv(1) THEN t ELSE t + 1

\* The clock after call c has run one iteration of its loop: the threads of
\* one interpreter run one at a time, so every iteration of every call takes
\* its own unit of time.
AfterIteration(t, c) == t + 1

\* for i in range(n): result += i * i (ss.py:14-15).
CpuLoop(c) ==
    /\ t_pc[c] = "loop"
    /\ t_i[c] < t_n[c]
    /\ t_result' = [t_result EXCEPT ![c] = t_result[c] + t_i[c] * t_i[c]]
    /\ t_i' = [t_i EXCEPT ![c] = t_i[c] + 1]
    /\ now' = AfterIteration(now, c)
    /\ UNCHANGED <<t_pc, t_n, t_out, t_wait, t_slept, t_units, t_ret>>
    /\ UNCHANGED <<kind, args, completed, mainVars>>
    /\ UNCHANGED logVars

\* return result (ss.py:16)
CpuReturn(c) ==
    /\ t_pc[c] = "loop"
    /\ t_i[c] = t_n[c]
    /\ t_ret' = [t_ret EXCEPT ![c] = t_result[c]]
    /\ t_pc' = [t_pc EXCEPT ![c] = "done"]
    /\ completed' = Completed(c)
    /\ UNCHANGED <<t_n, t_i, t_result, t_out, t_wait, t_slept, t_units>>
    /\ UNCHANGED <<kind, args, now, mainVars>>
    /\ UNCHANGED logVars

\* requests.get(url, timeout=3) is called (ss.py:45) and blocks.
IoGet(c) ==
    /\ t_pc[c] = "get"
    /\ t_out[c] = NoOutcome
    /\ \E o \in Outcomes :
        /\ t_out' = [t_out EXCEPT ![c] = o]
        /\ t_wait' = [t_wait EXCEPT ![c] = o.dur]
    /\ UNCHANGED <<t_pc, t_n, t_i, t_result, t_slept, t_units, t_ret>>
    /\ UNCHANGED <<kind, args, now, completed, mainVars>>
    /\ UNCHANGED logVars

\* requests.get returns a response, whose status code is returned
\* (ss.py:45-46), or raises; the except branch starts time.sleep(1)
\* (ss.py:47-49).  An exception the except clause does not handle leaves
\* the function.
IoGetDone(c) ==
    /\ t_pc[c] = "get"
    /\ t_out[c] # NoOutcome
    /\ BlockingOver(t_wait[c])
    /\ IF t_out[c].res = "ok"
       THEN /\ t_ret' = [t_ret EXCEPT ![c] = t_out[c].status]
            /\ t_pc' = [t_pc EXCEPT ![c] = "done"]
            /\ completed' = Completed(c)
            /\ UNCHANGED t_wait
       ELSE IF Caught(t_out[c].res)
       THEN /\ t_pc' = [t_pc EXCEPT ![c] = "sleep"]
            /\ t_wait' = [t_wait EXCEPT ![c] = SleepSecs]
            /\ UNCHANGED <<t_ret, completed>>
       ELSE /\ t_pc' = [t_pc EXCEPT ![c] = "raised"]
            /\ completed' = Completed(c)
            /\ UNCHANGED <<t_ret, t_wait>>
    /\ UNCHANGED <<t_n, t_i, t_result, t_out, t_slept, t_units>>
    /\ UNCHANGED <<kind, args, now, mainVars>>
    /\ UNCHANGED logVars

\* time.sleep(1) returns; return 200 (ss.py:49-50)
IoSleepDone(c) ==
    /\ t_pc[c] = "sleep"
    /\ BlockingOver(t_wait[c])
    /\ t_ret' = [t_ret EXCEPT ![c] = FallbackStatus]
    /\ t_pc' = [t_pc EXCEPT ![c] = "done"]
    /\ completed' = Completed(c)
    /\ UNCHANGED <<t_n, t_i, t_result, t_out, t_wait, t_slept, t_units>>
    /\ UNCHANGED <<kind, args, now, mainVars>>
    /\ UNCHANGED logVars

\* The calls that are blocked with time left.
Blocked == {c \in Invs : t_pc[c] \in {"get", "sleep"} /\ t_wait[c] > 0}

\* One unit of time passes for every blocked call at once: a thread that
\* blocks lets the others run.  The clock of part 2 counts blocking time only.
Tick ==
    /\ Blocked # {}
    /\ now' = now + 1
    /\ t_wait' = [c \in Invs |-> IF c \in Blocked THEN t_wait[c] - 1 ELSE t_wait[c]]
    /\ t_units' = [c \in Invs |-> IF c \in Blocked THEN t_units[c] + 1 ELSE t_units[c]]
    /\ t_slept' = [c \in Invs |->
                      IF c \in Blocked /\ t_pc[c] = "sleep" THEN t_slept[c] + 1 ELSE t_slept[c]]
    /\ UNCHANGED <<t_pc, t_n, t_i, t_result, t_out, t_ret>>
    /\ UNCHANGED <<kind, args, completed, mainVars>>
    /\ UNCHANGED logVars

TaskStep(c) == CpuLoop(c) \/ CpuReturn(c) \/ IoGet(c) \/ IoGetDone(c) \/ IoSleepDone(c)

PoolNext ==
    \/ SeqTime0
    \/ SeqCall
    \/ SeqReturn
    \/ SeqTime1
    \/ PoolTime0
    \/ PoolEnter
    \/ Submit
    \/ PoolTake
    \/ GetResult
    \/ PoolExit
    \/ PoolTime1
    \/ PrintSpeedup
    \/ \E c \in Invs : TaskStep(c)
    \/ Tick

vars == <<logVars, poolVars>>

\* Part 3 of the script.
Init == LogInit /\ PoolIdle

Next == LogNext

Spec == Init /\ [][Next]_vars

\* The steps of the main thread in part 3.
MainStep == StartThread \/ Join \/ ReportLen \/ PrintItem

\* Part 3 with a scheduler that lets every thread that can take a step take
\* one in the end.  Nothing is assumed about which waiting worker gets the
\* lock: a worker waiting in Acquire is passed over whenever another holds it.
Fairness ==
    /\ WF_vars(MainStep)
    /\ \A w \in Workers : WF_vars(WorkerStep(w))

SpecFair == Init /\ [][Next]_vars /\ Fairness

\* Parts 1 and 2 of the script, each from its start.
SpecPoolInit == PoolInit /\ LogInit

SpecPool == SpecPoolInit /\ [][PoolNext]_vars

\* The division of the two elapsed times alone (ss.py:37, 70), each time any
\* value a difference of two clock readings can have.
SpecSpeedupInit == SpeedupInit /\ LogInit

SpeedupNext == PrintSpeedup

SpecSpeedup == SpecSpeedupInit /\ [][SpeedupNext]_vars

\* ------------------------------------------------------------------------
\* Properties of the shared list (checked under Spec)
\* ------------------------------------------------------------------------

\* The workers that are between the lock's __enter__ and its __exit__.
InCritical == {w \in Workers : w_pc[w] \in {"append", "release"}}

AllWorkersDone == \A w \in Workers : w_pc[w] = "done"

StepIds == 0..(StepsPerWorker - 1)

\* The text an entry of worker w and step i is to have.
Pattern ==
    [w \in Workers |->
        [i \in StepIds |-> "thread" \o ToString(w) \o "-task" \o ToString(i)]]

\* The entry e carries worker id w and step i.
Tagged(e, w, i) == e = Pattern[w][i]

\* The entries of shared_data that carry worker id w, in list order.
EntriesOf(w) ==
    SelectSeq(shared_data, LAMBDA e : \E i \in StepIds : Tagged(e, w, i))

Positions == DOMAIN shared_data

\* C1: in every reachable state at most one worker is inside the
\* lock-protected append to shared_data.
C1_MutualExclusion == Cardinality(InCritical) <= 1

\* C1's case: one worker is inside the append while another waits for the lock.
C1_Witness ==
    \E w1, w2 \in Workers :
        /\ w1 # w2
        /\ w_pc[w1] = "append"
        /\ w_pc[w2] = "acquire"
        /\ Len(shared_data) > 0

\* C2: once all workers have completed, the length of shared_data is
\* worker count * steps per worker, never smaller or larger.
C2_FinalLength ==
    AllWorkersDone => Len(shared_data) = WorkerCount * StepsPerWorker

\* C2's case: all workers have completed after a run in which they alternated.
C2_Witness ==
    /\ AllWorkersDone
    /\ Len(shared_data) >= 2
    /\ \E w \in Workers : Tagged(shared_data[1], w, 0) /\ ~Tagged(shared_data[2], w, 1)

\* C3: after all workers complete, every entry carries a worker id of
\* Workers and a step of StepIds, and each (worker id, step) pair occurs
\* exactly once.
C3_EachEntryOnce ==
    AllWorkersDone =>
        /\ \A p \in Positions :
              \E w \in Workers, i \in StepIds : Tagged(shared_data[p], w, i)
        /\ \A w \in Workers, i \in StepIds :
              Cardinality({p \in Positions : Tagged(shared_data[p], w, i)}) = 1

\* C3's case: all workers have completed and the last worker started wrote first.
C3_Witness ==
    /\ AllWorkersDone
    /\ Len(shared_data) > 0
    /\ Tagged(shared_data[1], WorkerCount - 1, 0)

\* C4: in every reachable state the entries of one worker are in
\* increasing step order; nothing is said of entries of different workers.
\* (Stated on neighbours: a worker's entries, taken in list order, never step
\* down from one to the next; that is the same as any two of them being in
\* step order.)
C4_PerWorkerOrder ==
    \A w \in Workers :
        LET own == EntriesOf(w)
        IN  \A k \in 1..(Len(own) - 1) :
                \A i \in StepIds, j \in StepIds :
                    (Tagged(own[k], w, i) /\ Tagged(own[k + 1], w, j)) => i <= j

\* C4's case: two workers have each written two entries, and the worker
\* started later wrote before the worker started first.
C4_Witness ==
    \E p1, p2, p3, p4 \in Positions :
        /\ p1 < p2 /\ p2 < p3 /\ p3 < p4
        /\ Tagged(shared_data[p1], 1, 0)
        /\ Tagged(shared_data[p2], 0, 0)
        /\ Tagged(shared_data[p3], 0, 1)
        /\ Tagged(shared_data[p4], 1, 1)

\* C7: the main thread is past the join loop, reading shared_data, only in
\* states where every worker has terminated, so no read of the list
\* overlaps a write.
C7_ReadAfterAllDone ==
    main_pc \in {"len", "print", "end"} =>
        /\ AllWorkersDone
        /\ InCritical = {}

\* C7's case: the main thread has got past the joins and is printing the list.
C7_Witness ==
    /\ main_pc = "print"
    /\ main_i >= 1
    /\ reported = Len(shared_data)

\* ------------------------------------------------------------------------
\* Properties of the timed runs (checked under SpecPool and SpecSpeedup)
\* ------------------------------------------------------------------------

\* The main thread has taken the result of every future.
Collected == p_pc \in {"pool_exit", "pool_time1", "speedup", "end", "crashed"}

\* Both elapsed times are measured.
Timed == p_pc \in {"speedup", "end", "crashed"}

SeqInvs == 1..N

\* The calls whose request failed (raised in requests.get).
Failed(c) == t_out[c].res \notin {"ok", "none"}

\* C5: the result at index j of the pooled run is the result of the j-th
\* submitted call, in whatever order the calls complete.
C5_SubmissionOrder ==
    \A j \in 1..Len(results) : results[j] = t_ret[PoolInv(j)]

\* C5's case: the last submitted call completed first, the first and the last
\* call returned different values, and all results are taken.
C5_Witness ==
    /\ Len(results) = N
    /\ completed[1] = PoolInv(N)
    /\ t_ret[PoolInv(1)] # t_ret[PoolInv(N)]

\* The task behaved as a pure function in this run: cpu_intensive_task is one;
\* io_intensive_task takes no argument, so it is one when all its calls
\* returned the same value.
PureRun ==
    \/ kind = "cpu"
    \/ \A c \in SeqInvs \cup PoolInvs : t_ret[c] = t_ret[1]

\* C6: for a pure task and N arguments, the sequential run and the pooled run
\* give N results each, equal index by index, however the pool's calls
\* interleave.
C6_SameResults ==
    (Collected /\ PureRun) =>
        /\ Len(seq_results) = N
        /\ Len(results) = N
        /\ \A j \in 1..N : seq_results[j] = results[j]

\* C6's case: two different arguments, the calls of the pool interleaved (the
\* second call completed first), and all results taken.
C6_Witness ==
    /\ kind = "cpu"
    /\ Collected
    /\ args[1] # args[2]
    /\ completed[1] = PoolInv(2)
    /\ seq_results[1] # seq_results[2]

\* C8: io_intensive_task never raises; a call whose request failed or timed
\* out has waited the fixed time and returned the fixed status, in the
\* sequential run and in the pool, and that status is what the caller gets.
C8_IoNeverRaises ==
    /\ \A c \in Invs : t_pc[c] # "raised"
    /\ \A c \in Invs :
          (t_pc[c] = "done" /\ Failed(c)) =>
              (t_ret[c] = FallbackStatus /\ t_slept[c] = SleepSecs)
    /\ \A j \in 1..Len(seq_results) : Failed(j) => seq_results[j] = FallbackStatus
    /\ \A j \in 1..Len(results) : Failed(PoolInv(j)) => results[j] = FallbackStatus

\* C8's case: a call of the sequential run failed to connect, a call of the
\* pool timed out, and the results of both runs are with the caller.
C8_Witness ==
    /\ kind = "io"
    /\ Collected
    /\ \E c \in SeqInvs : t_out[c].res = "ConnectionError"
    /\ \E c \in PoolInvs : t_out[c].res = "Timeout"

\* C9: the speedup computed with a concurrent elapsed time of 0 gives a
\* defined result and raises no division error.
C9_SpeedupDefined ==
    (p_pc \in {"end", "crashed"} /\ multi_time = 0) =>
        (~sp_out.raised /\ p_pc = "end")

\* Every call of both runs blocked for the one fixed duration.
FixedDuration == \A c \in SeqInvs \cup PoolInvs : t_units[c] = SleepSecs

\* C10: when each call of the I/O task blocks for one fixed duration and the
\* pool has as many workers as there are calls, the sequential run takes N
\* durations, the pooled run at least one, and the speedup is at most N.
C10_IoSpeedupBound ==
    (kind = "io" /\ Timed /\ FixedDuration) =>
        /\ MaxWorkers(kind) = N
        /\ single_time = N * SleepSecs
        /\ multi_time >= SleepSecs
        /\ single_time <= N * multi_time
        /\ p_pc = "end" => (~sp_out.raised /\ sp_out.value <= 100 * N)

\* C10's case: a run of fixed durations in which the pooled calls blocked
\* together, so that the speedup printed is the number of workers.
C10_Witness ==
    /\ kind = "io"
    /\ p_pc = "end"
    /\ FixedDuration
    /\ sp_out.value = 100 * MaxWorkers(kind)

\* The iterations the calls of one run make: the sum of the arguments.
RECURSIVE SumArgs(_)
SumArgs(j) == IF j = 0 THEN 0 ELSE args[j] + SumArgs(j - 1)

\* C11: for the CPU-bound task, with one thread executing at a time, the
\* pooled run takes at least as many execution steps as the sequential run,
\* so the speedup printed is never greater than 1.00.
C11_CpuNoSpeedup ==
    (kind = "cpu" /\ Timed) =>
        /\ single_time = SumArgs(N)
        /\ multi_time >= single_time
        /\ p_pc = "end" => (~sp_out.raised /\ sp_out.value <= 100)

\* C11's case: the two calls of the pool ran interleaved (the second call
\* completed first, while the first had started), and the ratio is printed.
C11_Witness ==
    /\ kind = "cpu"
    /\ p_pc = "end"
    /\ completed[1] = PoolInv(2)
    /\ args[1] < args[2]
    /\ sp_out.value = 100

\* ------------------------------------------------------------------------
\* Further properties of the shared list (checked under Spec and SpecFair)
\* ------------------------------------------------------------------------

\* The main thread has printed the whole list and every worker has ended.
LogFinished ==
    /\ main_pc = "end"
    /\ AllWorkersDone
    /\ reported = WorkerCount * StepsPerWorker
    /\ printed = shared_data

\* C12: under weak fairness of each thread's steps alone, part 3 always
\* terminates: every worker makes all its appends and ends, every join
\* returns, and the main thread reports the list.
C12_Terminates == <>LogFinished

\* C12's case: the run has ended with the whole list printed, the lock free.
C12_Witness == LogFinished /\ ~lock /\ Len(printed) = WorkerCount * StepsPerWorker

\* The workers that are not inside the with block: not started, waiting for
\* the lock, in the pause after the append, or ended.
Outside == {w \in Workers : w_pc[w] \in {"new", "acquire", "sleep", "done"}}

\* C13: the lock is locked exactly while some worker is inside the with block
\* around its append: it is free whenever every worker is waiting, pausing
\* after its append or ended, and free once all workers have completed.
C13_LockOnlyForAppend ==
    /\ lock <=> (InCritical # {})
    /\ (Outside = Workers) => ~lock
    /\ AllWorkersDone => ~lock

\* C13's case: one worker holds the lock at its append while another is in
\* its pause after an append and a third has ended.
C13_Witness ==
    \E w1, w2, w3 \in Workers :
        /\ w_pc[w1] = "append"
        /\ w_pc[w2] = "sleep"
        /\ w_pc[w3] = "done"
        /\ lock

\* ------------------------------------------------------------------------
\* Further properties of the timed runs (checked under SpecPool)
\* ------------------------------------------------------------------------

\* The call c has been made (its body was entered).
Started(c) == t_pc[c] # "idle"

\* The call c is being executed.
Active(c) == t_pc[c] \in {"loop", "get", "sleep"}

\* The sequential run is over.
SeqOver == p_pc \notin {"seq_time0", "seq_call", "seq_wait"}

\* C14: the sequential run calls the task once per argument, in input order
\* and one call at a time: call j+1 is not made before call j has returned,
\* call j gets the j-th argument, and the results are kept in input order.
C14_SequentialOrder ==
    /\ Cardinality({c \in SeqInvs : Active(c)}) <= 1
    /\ \A j \in 1..(N - 1) : Started(j + 1) => t_pc[j] = "done"
    /\ \A j \in SeqInvs : Started(j) => t_n[j] = args[j]
    /\ Len(seq_results) <= N
    /\ \A j \in 1..Len(seq_results) : t_pc[j] = "done" /\ seq_results[j] = t_ret[j]
    /\ \A j \in SeqInvs :
          Active(j) => (p_pc = "seq_wait" /\ p_k = j /\ Len(seq_results) = j - 1)
    /\ SeqOver => (Len(seq_results) = N /\ \A j \in SeqInvs : t_pc[j] = "done")
    /\ ~SeqOver => \A c \in PoolInvs : ~Started(c)

\* C14's case: the sequential run of the CPU task is over, with two different
\* arguments that gave two different results.
C14_Witness ==
    /\ kind = "cpu"
    /\ p_pc = "seq_time1"
    /\ args[1] > args[2]
    /\ seq_results[1] > seq_results[2]

\* The start of the pooled run is not yet read from the clock.
BeforePoolStamp == p_pc \in {"seq_time0", "seq_call", "seq_wait", "seq_time1", "pool_time0"}

\* C15: the elapsed time of the pooled run covers the whole run.  The start
\* is read before the executor is created and before any submitted call
\* begins; the end is read only after every submitted call has completed, all
\* results are taken and the executor is shut down; so the elapsed time is
\* the time from the one to the other and no less than any call's blocking.
C15_PoolTimeCoversRun ==
    /\ BeforePoolStamp =>
          /\ executor = "none"
          /\ futures = <<>>
          /\ \A c \in PoolInvs : ~Started(c)
    /\ multi_time # -1 =>
          /\ executor = "shutdown"
          /\ Len(futures) = N
          /\ Len(results) = N
          /\ \A c \in PoolInvs : t_pc[c] = "done"
          /\ multi_time = now - start
          /\ \A c \in PoolInvs : multi_time >= t_units[c]
          /\ kind = "cpu" => multi_time >= SumArgs(N)

\* C15's case: the pooled run of the I/O task is timed after a call of it
\* ran into the timeout and slept, the longest a call can block.
C15_Witness ==
    /\ kind = "io"
    /\ multi_time # -1
    /\ \E c \in PoolInvs : t_units[c] = TimeoutSecs + SleepSecs
    /\ \E c \in PoolInvs : t_units[c] = SleepSecs

\* ------------------------------------------------------------------------
\* Properties of the shared list, continued (checked under Spec)
\* ------------------------------------------------------------------------

\* The list after the step is the list before it with one entry more at its end.
ExtendedByOne ==
    /\ Len(shared_data') = Len(shared_data) + 1
    /\ SubSeq(shared_data', 1, Len(shared_data)) = shared_data

\* C16: shared_data is append-only: every step leaves it unchanged or extends
\* it by exactly one entry at the end, so an entry once at a position stays
\* there and the length never decreases.
C16_AppendOnly == [][shared_data' = shared_data \/ ExtendedByOne]_vars

\* C16's case: a worker has just appended to a list that held entries of the
\* other workers, and its entry is the last one.
C16_Witness ==
    \E w \in Workers :
        /\ w_pc[w] = "release"
        /\ Len(shared_data) >= WorkerCount
        /\ Tagged(shared_data[Len(shared_data)], w, w_i[w])
        /\ \E p \in Positions : \E v \in Workers \ {w} : Tagged(shared_data[p], v, 0)

\* The appends worker w has completed: one per finished iteration, and one
\* more once the append of the current iteration has run (ss.py:81).
Appended(w) ==
    w_i[w] + (IF w_pc[w] \in {"release", "sleep"} THEN 1 ELSE 0)

\* The appends completed by workers 0..(n - 1) together.
RECURSIVE AppendedBelow(_)
AppendedBelow(n) == IF n = 0 THEN 0 ELSE Appended(n - 1) + AppendedBelow(n - 1)

\* C17: in every reachable state, not only the final one, the number of
\* entries tagged with worker w equals the number of appends w has completed,
\* which is at most the length of w's loop, and the length of shared_data is
\* the sum of these numbers over the workers.
C17_CountsMatchAppends ==
    /\ \A w \in Workers :
          /\ Len(EntriesOf(w)) = Appended(w)
          /\ Appended(w) <= StepsPerWorker
    /\ Len(shared_data) = AppendedBelow(WorkerCount)

\* C17's case: a state in the middle of the run where the workers have
\* completed different numbers of appends, one of them inside its with block.
C17_Witness ==
    /\ ~AllWorkersDone
    /\ \E w \in Workers : w_pc[w] = "release" /\ Appended(w) = 1
    /\ \E w \in Workers : Appended(w) = StepsPerWorker
    /\ \E w \in Workers : Appended(w) = 0

====
